---------------------------- MODULE Spec2Model ----------------------------
(***************************************************************************)
(* A model of src/balance.py: the Advance and Balance classes of the       *)
(* ledger.  Amounts and rates are exact rationals [num, den] in lowest     *)
(* terms: the arithmetic of the program on Fraction or Decimal arguments,  *)
(* and on floats where the values drawn are halves and small integers,     *)
(* whose sums, differences and products are exact.  ISO date strings are   *)
(* triples <<year, month, day>>; date objects are proleptic Gregorian      *)
(* ordinals.                                                               *)
(***************************************************************************)
EXTENDS Integers, Sequences, FiniteSets, TLC

(***************************************************************************)
(* Bounds of the model.                                                    *)
(***************************************************************************)
\* most calls of add_advance and add_payment in a behaviour
MaxOps == 4

(***************************************************************************)
(* Numbers.                                                                *)
(***************************************************************************)
Abs(x) == IF x < 0 THEN -x ELSE x

RECURSIVE Gcd(_, _)
Gcd(a, b) == IF b = 0 THEN a ELSE Gcd(b, a % b)

Rat(n, d) ==
    LET s == IF d < 0 THEN -1 ELSE 1
        g == Gcd(Abs(n), Abs(d))
    IN  [num |-> (s * n) \div g, den |-> (s * d) \div g]

Zero == [num |-> 0, den |-> 1]
FromInt(k) == [num |-> k, den |-> 1]

Add(x, y) == Rat(x.num * y.den + y.num * x.den, x.den * y.den)
Sub(x, y) == Rat(x.num * y.den - y.num * x.den, x.den * y.den)
Mul(x, y) == Rat(x.num * y.num, x.den * y.den)
Neg(x) == [num |-> -x.num, den |-> x.den]
Lt(x, y) == x.num * y.den < y.num * x.den
Le(x, y) == x.num * y.den <= y.num * x.den
\* floor(x / y) for y # 0: true division followed by math.floor
FloorDiv(x, y) ==
    LET q == Rat(x.num * y.den, x.den * y.num) IN q.num \div q.den

(***************************************************************************)
(* Calendar dates: date.fromisoformat, date.isoformat, date + timedelta.   *)
(***************************************************************************)
IsLeap(y) == (y % 4 = 0) /\ ((y % 100 # 0) \/ (y % 400 = 0))

DaysInMonth(y, m) ==
    IF m = 2 THEN (IF IsLeap(y) THEN 29 ELSE 28)
    ELSE IF m \in {4, 6, 9, 11} THEN 30 ELSE 31

RECURSIVE DaysBeforeMonth(_, _)
DaysBeforeMonth(y, m) ==
    IF m = 1 THEN 0 ELSE DaysBeforeMonth(y, m - 1) + DaysInMonth(y, m - 1)

DaysBeforeYear(y) ==
    LET p == y - 1 IN p * 365 + (p \div 4) - (p \div 100) + (p \div 400)

\* an ISO string that date.fromisoformat accepts
IsIsoDate(s) ==
    /\ s[1] \in 1..9999
    /\ s[2] \in 1..12
    /\ s[3] \in 1..DaysInMonth(s[1], s[2])

\* date.fromisoformat of an accepted string, as the date's ordinal
fromisoformat(s) == DaysBeforeYear(s[1]) + DaysBeforeMonth(s[1], s[2]) + s[3]

\* date.isoformat: the string of the date with ordinal n
isoformat(n) ==
    CHOOSE s \in {2024} \X (1..3) \X (1..31) : IsIsoDate(s) /\ fromisoformat(s) = n

\* "2024-02-30": rejected by date.fromisoformat with ValueError
MalformedDate == <<2024, 2, 30>>
NoDate == <<0, 0, 0>>

(***************************************************************************)
(* class Advance                                                           *)
(***************************************************************************)
\* Advance.__init__ with a creation date that date.fromisoformat accepts
Advance(_creation_date, amount, daily_interest_rate, remaining_amount) ==
    [creation_date |-> fromisoformat(_creation_date),
     initial_amount |-> amount,
     remaining_amount |-> remaining_amount,
     daily_interest_rate |-> daily_interest_rate,
     last_interest_payment_date |-> fromisoformat(_creation_date)]

days_from_last_interest_payment(self, to_date) ==
    LET _to_date == fromisoformat(to_date)
    IN  IF _to_date <= self.last_interest_payment_date
        THEN 0
        ELSE _to_date - self.last_interest_payment_date

interest_by_day(self) == Mul(self.remaining_amount, self.daily_interest_rate)

Advance_interest_payable_balance(self, to_date) ==
    Mul(FromInt(days_from_last_interest_payment(self, to_date)), interest_by_day(self))

\* pay_capital without the clamp of a negative remaining_amount
pay_capital_unclamped(self, amount) ==
    [self |-> [self EXCEPT !.remaining_amount = Sub(@, amount)], rest |-> Zero]

\* pay_capital that clamps but does not hand back the amount not used
pay_capital_drops_rest(self, amount) ==
    LET r == Sub(self.remaining_amount, amount)
    IN  [self |-> [self EXCEPT !.remaining_amount = IF Lt(r, Zero) THEN Zero ELSE r],
         rest |-> Zero]

\* pay_capital with the two results of an overpayment swapped
pay_capital_swapped(self, amount) ==
    LET r == Sub(self.remaining_amount, amount)
    IN  IF Lt(r, Zero)
        THEN [self |-> [self EXCEPT !.remaining_amount = Neg(r)], rest |-> Zero]
        ELSE [self |-> [self EXCEPT !.remaining_amount = r], rest |-> Zero]

\* returns the advance after the call and the amount not used
pay_capital(self, amount) ==
    LET r == Sub(self.remaining_amount, amount)
    IN  IF Lt(r, Zero)
        THEN [self |-> [self EXCEPT !.remaining_amount = Zero], rest |-> Neg(r)]
        ELSE [self |-> [self EXCEPT !.remaining_amount = r], rest |-> Zero]

\* pay_interest whose partial branch rounds the days covered up
pay_interest_rounds_up(self, amount, payment_date) ==
    LET interest == Advance_interest_payable_balance(self, payment_date)
        interest_paid_in_days == -FloorDiv(Neg(amount), interest_by_day(self))
        interest_amount == Mul(FromInt(interest_paid_in_days), interest_by_day(self))
    IN  IF ~IsIsoDate(payment_date)
        THEN [self |-> self, rest |-> amount, interest_paid |-> Zero,
              branch |-> "none", raised |-> "ValueError"]
        ELSE IF Le(interest, amount)
        THEN [self |-> [self EXCEPT !.last_interest_payment_date =
                                        fromisoformat(payment_date)],
              rest |-> Sub(amount, interest), interest_paid |-> interest,
              branch |-> "full", raised |-> ""]
        ELSE [self |-> [self EXCEPT !.last_interest_payment_date =
                                        @ + interest_paid_in_days],
              rest |-> Sub(amount, interest_amount),
              interest_paid |-> interest_amount,
              branch |-> "partial", raised |-> ""]

\* pay_interest whose partial branch returns the whole amount as the rest
pay_interest_keeps_rest(self, amount, payment_date) ==
    LET interest == Advance_interest_payable_balance(self, payment_date)
        interest_paid_in_days == FloorDiv(amount, interest_by_day(self))
        interest_amount == Mul(FromInt(interest_paid_in_days), interest_by_day(self))
    IN  IF ~IsIsoDate(payment_date)
        THEN [self |-> self, rest |-> amount, interest_paid |-> Zero,
              branch |-> "none", raised |-> "ValueError"]
        ELSE IF Le(interest, amount)
        THEN [self |-> [self EXCEPT !.last_interest_payment_date =
                                        fromisoformat(payment_date)],
              rest |-> Sub(amount, interest), interest_paid |-> interest,
              branch |-> "full", raised |-> ""]
        ELSE [self |-> [self EXCEPT !.last_interest_payment_date =
                                        @ + interest_paid_in_days],
              rest |-> amount,
              interest_paid |-> interest_amount,
              branch |-> "partial", raised |-> ""]

\* returns the advance after the call, (rest, interest_paid), the branch
\* taken and the exception raised, if any
pay_interest(self, amount, payment_date) ==
    IF ~IsIsoDate(payment_date)
    THEN [self |-> self, rest |-> amount, interest_paid |-> Zero,
          branch |-> "none", raised |-> "ValueError"]
    ELSE
    LET interest == Advance_interest_payable_balance(self, payment_date)
    IN  IF Le(interest, amount)
        THEN [self |-> [self EXCEPT !.last_interest_payment_date =
                                        fromisoformat(payment_date)],
              rest |-> Sub(amount, interest), interest_paid |-> interest,
              branch |-> "full", raised |-> ""]
        ELSE IF interest_by_day(self) = Zero
        THEN [self |-> self, rest |-> amount, interest_paid |-> Zero,
              branch |-> "partial", raised |-> "ZeroDivisionError"]
        ELSE
        LET interest_paid_in_days == FloorDiv(amount, interest_by_day(self))
            interest_amount == Mul(FromInt(interest_paid_in_days), interest_by_day(self))
        IN  [self |-> [self EXCEPT !.last_interest_payment_date =
                                       @ + interest_paid_in_days],
             rest |-> Sub(amount, interest_amount),
             interest_paid |-> interest_amount,
             branch |-> "partial", raised |-> ""]

is_close(self) == self.remaining_amount = Zero

(***************************************************************************)
(* class Payment                                                           *)
(***************************************************************************)
Payment(creation_date, amount) == [creation_date |-> creation_date, amount |-> amount]

(***************************************************************************)
(* class Balance                                                           *)
(*                                                                         *)
(* advances holds the Advance objects in creation order; unpaid holds      *)
(* references to them (their positions in advances), as the private list   *)
(* __unpaid_advances does.  start_balance is the balance argument of the   *)
(* constructor.  call records the last operation: its arguments, the       *)
(* state it started from, what each traversal yielded and every            *)
(* pay_interest call it made.                                              *)
(***************************************************************************)
VARIABLES advances, unpaid, payments, interest_paid, daily_interest_rate,
          balance, start_balance, call

vars == <<advances, unpaid, payments, interest_paid, daily_interest_rate,
          balance, start_balance, call>>

\* a removal that drops the last entry, whatever x is
remove_last(list, x) ==
    IF list = <<>> THEN <<>> ELSE SubSeq(list, 1, Len(list) - 1)

\* list.remove: drops the first occurrence of x
RECURSIVE remove(_, _)
remove(list, x) ==
    IF list = <<>> THEN <<>>
    ELSE IF Head(list) = x THEN Tail(list)
    ELSE <<Head(list)>> \o remove(Tail(list), x)

\* the state a traversal of unpaid_advances works on
Traversal(_advances, _unpaid, _balance, _interest_paid) ==
    [advances |-> _advances, unpaid |-> _unpaid, balance |-> _balance,
     interest_paid |-> _interest_paid,
     i |-> 0, length |-> Len(_unpaid),
     yielded |-> <<>>, calls |-> <<>>, stop |-> ""]

\* the record of one call advance.pay_interest(amount, payment_date) -> r
InterestCall(a, self, amount, r) ==
    [advance |-> a, amount |-> amount, before |-> self, after |-> r.self,
     rest |-> r.rest, interest_paid |-> r.interest_paid,
     branch |-> r.branch, raised |-> r.raised]

\* the loop body with interest_paid assigned instead of accumulated
pay_interest_body_overwrites_total(s, a, payment_date) ==
    IF s.balance = Zero
    THEN [s EXCEPT !.stop = "break"]
    ELSE LET r == pay_interest(s.advances[a], s.balance, payment_date)
             c == InterestCall(a, s.advances[a], s.balance, r)
         IN  IF r.raised # ""
             THEN [s EXCEPT !.stop = r.raised, !.calls = Append(@, c)]
             ELSE [s EXCEPT !.advances[a] = r.self,
                            !.balance = r.rest,
                            !.interest_paid = r.interest_paid,
                            !.calls = Append(@, c)]

\* body of the for loop of Balance.__pay_interest, for the yielded advance a
pay_interest_body(s, a, payment_date) ==
    IF s.balance = Zero
    THEN [s EXCEPT !.stop = "break"]
    ELSE LET r == pay_interest(s.advances[a], s.balance, payment_date)
             c == InterestCall(a, s.advances[a], s.balance, r)
         IN  IF r.raised # ""
             THEN [s EXCEPT !.stop = r.raised, !.calls = Append(@, c)]
             ELSE [s EXCEPT !.advances[a] = r.self,
                            !.balance = r.rest,
                            !.interest_paid = Add(@, r.interest_paid),
                            !.calls = Append(@, c)]

\* body of the for loop of Balance.__pay_capital, for the yielded advance a
pay_capital_body(s, a) ==
    IF s.balance = Zero
    THEN [s EXCEPT !.stop = "break"]
    ELSE LET r == pay_capital(s.advances[a], s.balance)
         IN  [s EXCEPT !.advances[a] = r.self, !.balance = r.rest]

\* what the consumer of the generator does with the yielded advance
consume(s, a, consumer, payment_date) ==
    CASE consumer = "pay_interest" -> pay_interest_body(s, a, payment_date)
      [] consumer = "pay_capital" -> pay_capital_body(s, a)
      [] OTHER -> s

\* unpaid_advances without the index rewind after a removal
RECURSIVE unpaid_advances_no_rewind(_, _, _)
unpaid_advances_no_rewind(s, consumer, payment_date) ==
    IF ~(s.i < s.length) THEN s
    ELSE IF ~(s.i + 1 \in 1..Len(s.unpaid)) THEN [s EXCEPT !.stop = "IndexError"]
    ELSE
    LET advance == s.unpaid[s.i + 1]
    IN  IF ~is_close(s.advances[advance])
        THEN LET t == consume([s EXCEPT !.yielded = Append(@, advance)],
                              advance, consumer, payment_date)
             IN  IF t.stop # "" THEN t
                 ELSE IF is_close(t.advances[advance])
                 THEN unpaid_advances_no_rewind(
                          [t EXCEPT !.unpaid = remove(@, advance),
                                    !.i = @ + 1,
                                    !.length = @ - 1],
                          consumer, payment_date)
                 ELSE unpaid_advances_no_rewind([t EXCEPT !.i = @ + 1],
                                                consumer, payment_date)
        ELSE unpaid_advances_no_rewind([s EXCEPT !.i = @ + 1], consumer, payment_date)

\* the generator Balance.unpaid_advances, run together with its consumer
RECURSIVE unpaid_advances(_, _, _)
unpaid_advances(s, consumer, payment_date) ==
    IF ~(s.i < s.length) THEN s
    ELSE IF ~(s.i + 1 \in 1..Len(s.unpaid)) THEN [s EXCEPT !.stop = "IndexError"]
    ELSE
    LET advance == s.unpaid[s.i + 1]
    IN  IF ~is_close(s.advances[advance])
        THEN LET t == consume([s EXCEPT !.yielded = Append(@, advance)],
                              advance, consumer, payment_date)
             IN  IF t.stop # "" THEN t
                 ELSE IF is_close(t.advances[advance])
                 THEN unpaid_advances(
                          [t EXCEPT !.unpaid = remove(@, advance),
                                    !.i = (@ - 1) + 1,
                                    !.length = @ - 1],
                          consumer, payment_date)
                 ELSE unpaid_advances([t EXCEPT !.i = @ + 1], consumer, payment_date)
        ELSE unpaid_advances([s EXCEPT !.i = @ + 1], consumer, payment_date)

\* Balance.__pay_interest and Balance.__pay_capital
Balance_pay_interest(_advances, _unpaid, _balance, _interest_paid, payment_date) ==
    unpaid_advances(Traversal(_advances, _unpaid, _balance, _interest_paid),
                    "pay_interest", payment_date)

Balance_pay_capital(_advances, _unpaid, _balance, _interest_paid) ==
    unpaid_advances(Traversal(_advances, _unpaid, _balance, _interest_paid),
                    "pay_capital", NoDate)

RECURSIVE Sum(_)
Sum(list) == IF list = <<>> THEN Zero ELSE Add(Head(list), Sum(Tail(list)))

(***************************************************************************)
(* The record of the last operation.                                       *)
(***************************************************************************)
\* the ledger as a traversal leaves it
Ledger(s) == [advances |-> s.advances, unpaid |-> s.unpaid,
              interest_paid |-> s.interest_paid, balance |-> s.balance]

\* what a traversal yielded, how it ended, the pay_interest calls it made
Trace(s) == [yielded |-> s.yielded, stop |-> s.stop, calls |-> s.calls]

Pre == [advances |-> advances, unpaid |-> unpaid,
        interest_paid |-> interest_paid, balance |-> balance]

NoLedger == [advances |-> <<>>, unpaid |-> <<>>, interest_paid |-> Zero,
             balance |-> Zero]
NoTrace == [yielded |-> <<>>, stop |-> "none", calls |-> <<>>]

\* daily_interest_rate=None
None == [num |-> 0, den |-> 0]

NoCall == [op |-> "init", date |-> NoDate, amount |-> Zero, rate |-> None,
           raised |-> "", pre |-> NoLedger, mid |-> NoLedger,
           interest |-> NoTrace, capital |-> NoTrace, read |-> NoTrace,
           result |-> Zero]

(***************************************************************************)
(* Inputs of the operations.                                               *)
(***************************************************************************)
Half == Rat(1, 2)
Day0 == <<2024, 1, 30>>
Day1 == <<2024, 1, 31>>
Day2 == <<2024, 2, 1>>
DefaultRates == {Half}
StartBalances == {Zero, FromInt(3)}
\* (advance_date, amount, daily_interest_rate) of add_advance
AdvanceInputs ==
    ({Day0, Day1} \X {FromInt(2)} \X {None})
        \cup {<<Day0, Zero, None>>, <<Day0, FromInt(1), Zero>>}
\* (payment_date, amount) of add_payment
PaymentInputs ==
    ({Day0} \X {Zero, FromInt(5)})
        \cup ({Day1} \X {FromInt(1)})
        \cup ({Day2} \X {FromInt(1), Rat(3, 2)})
QueryDates == {Day0, Day1}

\* Balance.__init__
Init ==
    /\ advances = <<>>
    /\ unpaid = <<>>
    /\ payments = <<>>
    /\ interest_paid = Zero
    /\ daily_interest_rate \in DefaultRates
    /\ balance \in StartBalances
    /\ start_balance = balance
    /\ call = NoCall

\* the offset of add_advance without resetting the absorbed cash buffer
offset_keeps_balance(_balance, amount) ==
    IF Lt(amount, _balance)
    THEN [remaining_amount |-> Zero, balance |-> Sub(_balance, amount)]
    ELSE [remaining_amount |-> Sub(amount, _balance), balance |-> _balance]

\* the offset of add_advance with the amount always deducted from the
\* cash buffer
offset_overdraws(_balance, amount) ==
    IF Lt(amount, _balance)
    THEN [remaining_amount |-> Zero, balance |-> Sub(_balance, amount)]
    ELSE [remaining_amount |-> Sub(amount, _balance),
          balance |-> Sub(_balance, amount)]

\* Balance.add_advance: use the available amount for immediate repayment
offset(_balance, amount) ==
    IF Lt(amount, _balance)
    THEN [remaining_amount |-> Zero, balance |-> Sub(_balance, amount)]
    ELSE [remaining_amount |-> Sub(amount, _balance), balance |-> Zero]

\* Balance.add_advance
add_advance(advance_date, amount, rate) ==
    /\ Len(advances) + Len(payments) < MaxOps
    /\ \E _rate \in {IF rate = None THEN daily_interest_rate ELSE rate} :
       \E o \in {offset(balance, amount)} :
       \E c \in {[NoCall EXCEPT !.op = "add_advance", !.date = advance_date,
                                !.amount = amount, !.rate = rate, !.pre = Pre,
                                !.mid = Pre]} :
        /\ balance' = o.balance
        /\ IF IsIsoDate(advance_date)
           THEN /\ advances' = Append(advances,
                        Advance(advance_date, amount, _rate, o.remaining_amount))
                /\ unpaid' = Append(unpaid, Len(advances) + 1)
                /\ call' = c
           ELSE /\ UNCHANGED <<advances, unpaid>>
                /\ call' = [c EXCEPT !.raised = "ValueError"]
        /\ UNCHANGED <<payments, interest_paid, daily_interest_rate, start_balance>>

\* add_payment with the capital sweep run before the interest sweep
add_payment_capital_first(payment_date, amount) ==
    /\ Len(advances) + Len(payments) < MaxOps
    /\ \E sc \in {Balance_pay_capital(advances, unpaid, Add(balance, amount),
                                      interest_paid)} :
       \E final \in {Balance_pay_interest(sc.advances, sc.unpaid, sc.balance,
                                          sc.interest_paid, payment_date)} :
        /\ payments' = Append(payments, Payment(payment_date, amount))
        /\ advances' = final.advances
        /\ unpaid' = final.unpaid
        /\ balance' = final.balance
        /\ interest_paid' = final.interest_paid
        /\ call' = [NoCall EXCEPT
                        !.op = "add_payment", !.date = payment_date,
                        !.amount = amount, !.pre = Pre, !.mid = Ledger(sc),
                        !.interest = Trace(final), !.capital = Trace(sc),
                        !.raised = IF final.stop = "break" THEN "" ELSE final.stop]
        /\ UNCHANGED <<daily_interest_rate, start_balance>>

\* Balance.add_payment
add_payment(payment_date, amount) ==
    /\ Len(advances) + Len(payments) < MaxOps
    /\ \E si \in {Balance_pay_interest(advances, unpaid, Add(balance, amount),
                                       interest_paid, payment_date)} :
       \E swept \in {si.stop \in {"", "break"}} :
       \E final \in {IF swept
                     THEN Balance_pay_capital(si.advances, si.unpaid, si.balance,
                                              si.interest_paid)
                     ELSE si} :
        /\ payments' = Append(payments, Payment(payment_date, amount))
        /\ advances' = final.advances
        /\ unpaid' = final.unpaid
        /\ balance' = final.balance
        /\ interest_paid' = final.interest_paid
        /\ call' = [NoCall EXCEPT
                        !.op = "add_payment", !.date = payment_date,
                        !.amount = amount, !.pre = Pre, !.mid = Ledger(si),
                        !.interest = Trace(si),
                        !.capital = IF swept THEN Trace(final) ELSE NoTrace,
                        !.raised = IF final.stop = "break" THEN "" ELSE final.stop]
        /\ UNCHANGED <<daily_interest_rate, start_balance>>

\* Balance.advances_balance
advances_balance ==
    \E s \in {unpaid_advances(Traversal(advances, unpaid, balance, interest_paid),
                              "read", NoDate)} :
        /\ advances' = s.advances
        /\ unpaid' = s.unpaid
        /\ balance' = s.balance
        /\ interest_paid' = s.interest_paid
        /\ call' = [NoCall EXCEPT !.op = "advances_balance", !.pre = Pre,
                       !.mid = Pre, !.read = Trace(s), !.raised = s.stop,
                       !.result = Sum([k \in 1..Len(s.yielded) |->
                                        advances[s.yielded[k]].remaining_amount])]
        /\ UNCHANGED <<payments, daily_interest_rate, start_balance>>

\* interest_payable_balance without the added day
interest_payable_balance_exclusive(to_date) ==
    IF ~IsIsoDate(to_date)
    THEN /\ call' = [NoCall EXCEPT !.op = "interest_payable_balance",
                        !.date = to_date, !.pre = Pre, !.mid = Pre,
                        !.raised = "ValueError"]
         /\ UNCHANGED <<advances, unpaid, payments, interest_paid,
                        daily_interest_rate, balance, start_balance>>
    ELSE
    \E s \in {unpaid_advances(Traversal(advances, unpaid, balance, interest_paid),
                              "read", NoDate)} :
        /\ advances' = s.advances
        /\ unpaid' = s.unpaid
        /\ balance' = s.balance
        /\ interest_paid' = s.interest_paid
        /\ call' = [NoCall EXCEPT !.op = "interest_payable_balance",
                       !.date = to_date, !.pre = Pre, !.mid = Pre,
                       !.read = Trace(s), !.raised = s.stop,
                       !.result = Sum([k \in 1..Len(s.yielded) |->
                           Advance_interest_payable_balance(
                               advances[s.yielded[k]], to_date)])]
        /\ UNCHANGED <<payments, daily_interest_rate, start_balance>>

\* interest_payable_balance that measures the interest by moving the
\* interest clock of every advance it reads to the cutoff
interest_payable_balance_moves_clock(to_date) ==
    IF ~IsIsoDate(to_date)
    THEN /\ call' = [NoCall EXCEPT !.op = "interest_payable_balance",
                        !.date = to_date, !.pre = Pre, !.mid = Pre,
                        !.raised = "ValueError"]
         /\ UNCHANGED <<advances, unpaid, payments, interest_paid,
                        daily_interest_rate, balance, start_balance>>
    ELSE
    \E _to_date \in {isoformat(fromisoformat(to_date) + 1)} :
    \E s \in {unpaid_advances(Traversal(advances, unpaid, balance, interest_paid),
                              "read", NoDate)} :
        /\ advances' = [i \in 1..Len(advances) |->
                            IF \E k \in 1..Len(s.yielded) : s.yielded[k] = i
                            THEN [advances[i] EXCEPT !.last_interest_payment_date =
                                                        fromisoformat(_to_date)]
                            ELSE advances[i]]
        /\ unpaid' = s.unpaid
        /\ balance' = s.balance
        /\ interest_paid' = s.interest_paid
        /\ call' = [NoCall EXCEPT !.op = "interest_payable_balance",
                       !.date = to_date, !.pre = Pre, !.mid = Pre,
                       !.read = Trace(s), !.raised = s.stop,
                       !.result = Sum([k \in 1..Len(s.yielded) |->
                           Advance_interest_payable_balance(
                               advances[s.yielded[k]], _to_date)])]
        /\ UNCHANGED <<payments, daily_interest_rate, start_balance>>

\* Balance.interest_payable_balance
Balance_interest_payable_balance(to_date) ==
    IF ~IsIsoDate(to_date)
    THEN /\ call' = [NoCall EXCEPT !.op = "interest_payable_balance",
                        !.date = to_date, !.pre = Pre, !.mid = Pre,
                        !.raised = "ValueError"]
         /\ UNCHANGED <<advances, unpaid, payments, interest_paid,
                        daily_interest_rate, balance, start_balance>>
    ELSE
    \E _to_date \in {isoformat(fromisoformat(to_date) + 1)} :
    \E s \in {unpaid_advances(Traversal(advances, unpaid, balance, interest_paid),
                              "read", NoDate)} :
        /\ advances' = s.advances
        /\ unpaid' = s.unpaid
        /\ balance' = s.balance
        /\ interest_paid' = s.interest_paid
        /\ call' = [NoCall EXCEPT !.op = "interest_payable_balance",
                       !.date = to_date, !.pre = Pre, !.mid = Pre,
                       !.read = Trace(s), !.raised = s.stop,
                       !.result = Sum([k \in 1..Len(s.yielded) |->
                           Advance_interest_payable_balance(
                               advances[s.yielded[k]], _to_date)])]
        /\ UNCHANGED <<payments, daily_interest_rate, start_balance>>

Next ==
    \/ \E in \in AdvanceInputs : add_advance(in[1], in[2], in[3])
    \/ \E in \in PaymentInputs : add_payment(in[1], in[2])

Spec == Init /\ [][Next]_vars

\* the operations together with the two queries
NextQ ==
    \/ \E in \in AdvanceInputs : add_advance(in[1], in[2], in[3])
    \/ \E in \in PaymentInputs : add_payment(in[1], in[2])
    \/ advances_balance
    \/ \E d \in QueryDates : Balance_interest_payable_balance(d)

SpecQ == Init /\ [][NextQ]_vars

(***************************************************************************)
(* Advance.pay_interest called on its own: a ledger that holds one advance, *)
(* as add_advance leaves it, and calls of pay_interest on that advance.    *)
(***************************************************************************)
\* (creation date, amount, daily_interest_rate) of the advance
LoneAdvances ==
    {<<<<2024, 1, 1>>, FromInt(1000), Rat(1, 1000)>>,
     <<<<2024, 1, 1>>, FromInt(3), Rat(1, 2)>>,
     <<<<2024, 1, 3>>, FromInt(2), FromInt(1)>>,
     <<<<2024, 1, 2>>, FromInt(5), Zero>>}
InterestDates == {<<2024, 1, d>> : d \in {1, 2, 3, 5}}
InterestAmounts == {Zero, Rat(1, 2), FromInt(1), Rat(5, 2), FromInt(4), FromInt(7)}

InitAdvance ==
    \E in \in LoneAdvances :
        /\ advances = <<Advance(in[1], in[2], in[3], in[2])>>
        /\ unpaid = <<1>>
        /\ payments = <<>>
        /\ interest_paid = Zero
        /\ daily_interest_rate = in[3]
        /\ balance = Zero
        /\ start_balance = Zero
        /\ call = NoCall

\* advances[1].pay_interest(amount, payment_date)
Advance_pay_interest(amount, payment_date) ==
    \E r \in {pay_interest(advances[1], amount, payment_date)} :
        /\ advances' = IF r.raised = "" THEN [advances EXCEPT ![1] = r.self]
                       ELSE advances
        /\ call' = [NoCall EXCEPT
                        !.op = "pay_interest", !.date = payment_date,
                        !.amount = amount, !.pre = Pre, !.mid = Pre,
                        !.interest = [yielded |-> <<1>>, stop |-> r.raised,
                                      calls |-> <<InterestCall(1, advances[1],
                                                               amount, r)>>],
                        !.raised = r.raised]
        /\ UNCHANGED <<unpaid, payments, interest_paid, daily_interest_rate, balance, start_balance>>

NextAdvance ==
    \E amount \in InterestAmounts, d \in InterestDates :
        Advance_pay_interest(amount, d)

SpecAdvance == InitAdvance /\ [][NextAdvance]_vars

(***************************************************************************)
(* Balance(0.01): a ledger at one percent a day, with advances of 100 and  *)
(* 50 made on 2024-01-01, payments on the following days and the queries.  *)
(***************************************************************************)
Percent == Rat(1, 100)
NewYear == <<2024, 1, 1>>
ExampleAdvanceInputs ==
    {<<NewYear, FromInt(100), None>>, <<NewYear, FromInt(50), None>>}
ExamplePaymentInputs ==
    ({<<2024, 1, 2>>} \X {FromInt(1), FromInt(60), FromInt(200)})
        \cup {<<<<2024, 1, 3>>, FromInt(1)>>}
ExampleQueryDates == {NewYear, <<2024, 1, 2>>, Day1}

InitExample ==
    /\ advances = <<>>
    /\ unpaid = <<>>
    /\ payments = <<>>
    /\ interest_paid = Zero
    /\ daily_interest_rate = Percent
    /\ balance = Zero
    /\ start_balance = balance
    /\ call = NoCall

NextExample ==
    \/ \E in \in ExampleAdvanceInputs : add_advance(in[1], in[2], in[3])
    \/ \E in \in ExamplePaymentInputs : add_payment(in[1], in[2])
    \/ advances_balance
    \/ \E d \in ExampleQueryDates : Balance_interest_payable_balance(d)

SpecExample == InitExample /\ [][NextExample]_vars

(***************************************************************************)
(* The operations called with dates that are not ISO dates as well.        *)
(***************************************************************************)
MalformedAdvanceInputs ==
    {<<Day0, FromInt(2), None>>, <<MalformedDate, FromInt(2), None>>}
MalformedPaymentInputs ==
    {<<Day1, FromInt(1)>>, <<Day0, Zero>>, <<MalformedDate, FromInt(5)>>}

NextMalformed ==
    \/ \E in \in MalformedAdvanceInputs : add_advance(in[1], in[2], in[3])
    \/ \E in \in MalformedPaymentInputs : add_payment(in[1], in[2])

SpecMalformed == Init /\ [][NextMalformed]_vars

(***************************************************************************)
(* Properties.                                                             *)
(***************************************************************************)
Indices == 1..Len(advances)
Open(_advances) == {i \in 1..Len(_advances) : ~is_close(_advances[i])}
IsPrefix(p, q) == Len(p) <= Len(q) /\ \A k \in 1..Len(p) : p[k] = q[k]
\* the entries of list that satisfy Keep, in order
RECURSIVE Filter(_, _)
Filter(list, keep) ==
    IF list = <<>> THEN <<>>
    ELSE IF Head(list) \in keep THEN <<Head(list)>> \o Filter(Tail(list), keep)
    ELSE Filter(Tail(list), keep)

\* C1: every advance has remaining_amount >= 0 in every reachable state.
C1_RemainingNonNegative ==
    \A i \in Indices : Le(Zero, advances[i].remaining_amount)

\* a payment larger than what an advance owed closed it and left cash over
C1_Witness ==
    /\ call.op = "add_payment"
    /\ balance # Zero
    /\ \E i \in Indices :
          /\ call.mid.advances[i].remaining_amount # Zero
          /\ advances[i].remaining_amount = Zero

\* C2: no pay_interest call moves last_interest_payment_date backwards.
C2_LastInterestPaymentDateNeverDecreases ==
    \A k \in 1..Len(call.interest.calls) :
        call.interest.calls[k].after.last_interest_payment_date
            >= call.interest.calls[k].before.last_interest_payment_date

\* what the last call collected
InterestCollected == Sub(interest_paid, call.pre.interest_paid)
CapitalCollected ==
    Sum([i \in 1..Len(call.pre.advances) |->
            Sub(call.pre.advances[i].remaining_amount, advances[i].remaining_amount)])

\* C3: within one add_payment call, interest collected + capital collected +
\* cash buffer after <= cash buffer before + amount, with equality when the
\* cash buffer after the call is 0.
C3_Conservation ==
    call.op = "add_payment" =>
        LET out == Add(Add(InterestCollected, CapitalCollected), balance)
            in == Add(call.pre.balance, call.amount)
        IN  /\ Le(out, in)
            /\ balance = Zero => out = in

\* a payment that paid interest and capital and was absorbed entirely
C3_Witness ==
    /\ call.op = "add_payment"
    /\ Lt(Zero, InterestCollected)
    /\ Lt(Zero, CapitalCollected)
    /\ balance = Zero

\* C4: if a later advance has remaining_amount below its initial_amount, every
\* earlier advance is closed.
C4_OldestFirst ==
    \A i \in Indices : \A j \in Indices :
        (i < j /\ Lt(advances[j].remaining_amount, advances[j].initial_amount))
            => is_close(advances[i])

\* a payment closed the first advance and paid part of the second
C4_Witness ==
    /\ call.op = "add_payment"
    /\ \E i \in Indices : \E j \in Indices :
          /\ i < j
          /\ ~is_close(call.mid.advances[i])
          /\ is_close(advances[i])
          /\ Lt(advances[j].remaining_amount, call.mid.advances[j].remaining_amount)
          /\ ~is_close(advances[j])

\* a traversal of list yielded, in order and until it stopped, the entries
\* that were open, each once
SweepIsSafe(trace, list, _advances) ==
    LET expected == Filter(list, Open(_advances))
    IN  /\ IsPrefix(trace.yielded, expected)
        /\ trace.stop = "" => trace.yielded = expected
        /\ trace.stop = "break" => trace.yielded # <<>>
        /\ \A k \in 1..Len(trace.yielded) : \A l \in 1..Len(trace.yielded) :
              k < l => trace.yielded[k] < trace.yielded[l]

\* C5: each sweep of add_payment yields, in creation order and until it stops,
\* exactly the advances of the working set that are open when reached, each
\* once: none skipped, none twice, none closed.
C5_TraversalSafety ==
    call.op = "add_payment" =>
        /\ call.interest.stop \in {"", "break"}
        /\ SweepIsSafe(call.interest, call.pre.unpaid, call.pre.advances)
        /\ call.capital.stop \in {"", "break"}
        /\ SweepIsSafe(call.capital, call.mid.unpaid, call.mid.advances)

\* a capital sweep over three open advances in which the middle one closed
\* and the third was yielded after it
C5_Witness ==
    /\ call.op = "add_payment"
    /\ Len(call.mid.unpaid) = 3
    /\ Len(call.capital.yielded) = 3
    /\ ~is_close(call.mid.advances[call.capital.yielded[2]])
    /\ is_close(advances[call.capital.yielded[2]])
    /\ ~is_close(advances[call.capital.yielded[3]])

\* the last call traversed the working set to its end
CompleteTraversal ==
    \/ call.op = "advances_balance"
    \/ call.op = "interest_payable_balance" /\ call.raised = ""
    \/ call.op = "add_payment" /\ call.capital.stop = ""

\* C6: after a complete traversal of unpaid_advances (a query, or a sweep of
\* add_payment that ran to the end) the working set holds no closed advance.
C6_NoClosedAdvanceAfterTraversal ==
    CompleteTraversal =>
        \A k \in 1..Len(unpaid) : ~is_close(advances[unpaid[k]])

\* C7: remaining_amount of every advance never increases, so a closed advance
\* stays closed.
C7_RemainingNeverIncreases ==
    [][\A i \in Indices :
          /\ Le(advances'[i].remaining_amount, advances[i].remaining_amount)
          /\ is_close(advances[i]) => is_close(advances'[i])]_vars

\* a payment with cash to allocate arrived while an advance was already
\* closed and another was open, and the closed one is still closed
C7_Witness ==
    /\ call.op = "add_payment"
    /\ call.amount # Zero
    /\ \E i \in Indices : is_close(call.pre.advances[i]) /\ is_close(advances[i])
    /\ \E j \in Indices :
          Lt(advances[j].remaining_amount, call.pre.advances[j].remaining_amount)

\* the last call was add_payment(date, I) on an empty cash buffer, with
\* advance i the one open advance and I > 0 its interest accrued at date
AccruedAt(i) == Advance_interest_payable_balance(call.pre.advances[i], call.date)
C8_Case(i) ==
    /\ call.op = "add_payment"
    /\ call.pre.balance = Zero
    /\ Open(call.pre.advances) = {i}
    /\ Lt(Zero, AccruedAt(i))
    /\ call.amount = AccruedAt(i)

\* C8: with an empty cash buffer and one open advance whose accrued interest
\* at the payment date is I > 0, add_payment(date, I) leaves remaining_amount
\* unchanged, adds I to interest_paid, sets last_interest_payment_date to the
\* payment date and leaves the cash buffer at 0.
C8_InterestBeforeCapital ==
    \A i \in Indices :
        C8_Case(i) =>
            /\ advances[i].remaining_amount = call.pre.advances[i].remaining_amount
            /\ interest_paid = Add(call.pre.interest_paid, AccruedAt(i))
            /\ advances[i].last_interest_payment_date = fromisoformat(call.date)
            /\ balance = Zero

C8_Witness == \E i \in Indices : C8_Case(i)

\* C9: add_advance with cash buffer b and amount a: if b > a the advance
\* starts with remaining_amount 0 and the buffer becomes b - a, otherwise it
\* starts with remaining_amount a - b and the buffer becomes 0; initial_amount
\* is a and the advance is appended to advances and to the working set.
C9_AddAdvanceOffsetsCashBuffer ==
    (call.op = "add_advance" /\ call.raised = "") =>
        LET b == call.pre.balance
            a == call.amount
            n == Len(call.pre.advances) + 1
        IN  /\ Len(advances) = n
            /\ \A i \in 1..(n - 1) : advances[i] = call.pre.advances[i]
            /\ unpaid = Append(call.pre.unpaid, n)
            /\ advances[n].initial_amount = a
            /\ Lt(a, b) => /\ advances[n].remaining_amount = Zero
                           /\ balance = Sub(b, a)
            /\ ~Lt(a, b) => /\ advances[n].remaining_amount = Sub(a, b)
                            /\ balance = Zero

\* an advance of 2 was added fully pre-funded from a buffer of 3, and the next
\* advance of 2 absorbed the buffer of 1 that was left
C9_Witness ==
    /\ call.op = "add_advance"
    /\ Len(advances) = 2
    /\ advances[1].initial_amount = FromInt(2)
    /\ advances[1].remaining_amount = Zero
    /\ call.pre.balance = FromInt(1)
    /\ call.amount = FromInt(2)
    /\ advances[2].remaining_amount = FromInt(1)
    /\ balance = Zero

\* the call c of pay_interest got less than the interest accrued
IsPartial(c) ==
    /\ c.raised = ""
    /\ Lt(c.amount, Advance_interest_payable_balance(c.before, call.date))

\* C10: a pay_interest call with amount below the accrued interest credits
\* whole days only: the date advances by n days where n is the integer with
\* n * interest_by_day <= amount < (n + 1) * interest_by_day, that is
\* n = floor(amount / interest_by_day), and the call returns
\* (amount - n * interest_by_day, n * interest_by_day).
C10_PartialDayRounding ==
    \A k \in 1..Len(call.interest.calls) :
        LET c == call.interest.calls[k]
            n == c.after.last_interest_payment_date
                     - c.before.last_interest_payment_date
            by_day == interest_by_day(c.before)
        IN  IsPartial(c) =>
                /\ n >= 0
                /\ Le(Mul(FromInt(n), by_day), c.amount)
                /\ Lt(c.amount, Mul(FromInt(n + 1), by_day))
                /\ c.interest_paid = Mul(FromInt(n), by_day)
                /\ c.rest = Sub(c.amount, Mul(FromInt(n), by_day))
                /\ c.after = [c.before EXCEPT !.last_interest_payment_date = @ + n]

\* remaining 1000, rate 0.001, last date 2024-01-01: pay_interest(2.5,
\* "2024-01-05") moves the date to 2024-01-03 and returns (0.5, 2)
C10_Witness ==
    /\ call.op = "pay_interest"
    /\ call.date = <<2024, 1, 5>>
    /\ call.amount = Rat(5, 2)
    /\ LET c == call.interest.calls[1]
       IN  /\ c.before.remaining_amount = FromInt(1000)
           /\ c.before.daily_interest_rate = Rat(1, 1000)
           /\ c.before.last_interest_payment_date = fromisoformat(<<2024, 1, 1>>)
           /\ IsPartial(c)
           /\ advances[1].last_interest_payment_date = fromisoformat(<<2024, 1, 3>>)
           /\ c.rest = Rat(1, 2)
           /\ c.interest_paid = FromInt(2)

\* the larger of two numbers
Max(x, y) == IF Lt(x, y) THEN y ELSE x
\* the interest an advance accrued from its last interest payment date to
\* the day d
AccruedThrough(a, d) ==
    Mul(Mul(a.remaining_amount, a.daily_interest_rate),
        FromInt(IF d > a.last_interest_payment_date
                THEN d - a.last_interest_payment_date ELSE 0))
TotalAccrued(_advances, d) ==
    Sum([i \in 1..Len(_advances) |-> AccruedThrough(_advances[i], d)])
\* what is left of advance i after cash is applied to _advances oldest first
AfterWaterfall(_advances, cash, i) ==
    LET older == Sum([j \in 1..(i - 1) |-> _advances[j].remaining_amount])
    IN  Max(Zero, Sub(_advances[i].remaining_amount, Max(Zero, Sub(cash, older))))

\* the last call was add_payment(date, amount) with no open advance paid
\* beyond date and cash for all the interest accrued through date
C11_Case ==
    /\ call.op = "add_payment"
    /\ IsIsoDate(call.date)
    /\ \A i \in Open(call.pre.advances) :
          call.pre.advances[i].last_interest_payment_date <= fromisoformat(call.date)
    /\ Le(TotalAccrued(call.pre.advances, fromisoformat(call.date)),
          Add(call.pre.balance, call.amount))

\* C11: add_payment(date, amount) on open advances whose
\* last_interest_payment_date is <= date, with cash (buffer + amount) of at
\* least the interest accrued through date: interest_paid grows by exactly
\* that total, each advance being charged its interest at the payment date
\* in creation order, and the cash left goes to capital in creation order.
C11_TwoSweepAllocation ==
    C11_Case =>
        LET d == fromisoformat(call.date)
            total == TotalAccrued(call.pre.advances, d)
            cash == Sub(Add(call.pre.balance, call.amount), total)
            owed == Sum([i \in 1..Len(call.pre.advances) |->
                            call.pre.advances[i].remaining_amount])
            calls == call.interest.calls
        IN  /\ call.raised = ""
            /\ interest_paid = Add(call.pre.interest_paid, total)
            /\ \A k \in 1..Len(calls) :
                  /\ calls[k].interest_paid =
                         AccruedThrough(call.pre.advances[calls[k].advance], d)
                  /\ \A l \in 1..Len(calls) :
                         k < l => calls[k].advance < calls[l].advance
            /\ call.mid.balance = cash
            /\ \A i \in Indices :
                  advances[i].remaining_amount =
                      AfterWaterfall(call.pre.advances, cash, i)
            /\ balance = Max(Zero, Sub(cash, owed))

\* A of 100 and B of 50 at 0.01 a day, both of 2024-01-01, and
\* add_payment("2024-01-02", 60): interest of 1 and 0.5 is paid, A is left
\* at 41.5, B at 50 and the buffer at 0
C11_Witness ==
    /\ C11_Case
    /\ call.date = <<2024, 1, 2>>
    /\ call.amount = FromInt(60)
    /\ call.pre.balance = Zero
    /\ call.pre.advances =
          <<Advance(NewYear, FromInt(100), Percent, FromInt(100)),
            Advance(NewYear, FromInt(50), Percent, FromInt(50))>>
    /\ Len(call.interest.calls) = 2
    /\ call.interest.calls[1].interest_paid = FromInt(1)
    /\ call.interest.calls[2].interest_paid = Rat(1, 2)
    /\ interest_paid = Rat(3, 2)
    /\ advances[1].remaining_amount = Rat(83, 2)
    /\ advances[2].remaining_amount = FromInt(50)
    /\ balance = Zero

\* C12: Balance.interest_payable_balance(d) is the sum, over the open
\* advances, of remaining_amount * daily_interest_rate * max(0, (d + 1 day)
\* - last_interest_payment_date); a closed advance adds 0 to the sum.
C12_InclusiveCutoff ==
    (call.op = "interest_payable_balance" /\ call.raised = "") =>
        call.result = TotalAccrued(advances, fromisoformat(call.date) + 1)

\* one advance of 100 at 0.01 a day made on 2024-01-01: the query for
\* 2024-01-01 returns 1
C12_Witness ==
    /\ call.op = "interest_payable_balance"
    /\ call.date = NewYear
    /\ advances = <<Advance(NewYear, FromInt(100), Percent, FromInt(100))>>
    /\ call.result = FromInt(1)

\* C13: an add_advance or add_payment call that fails (raises) leaves the
\* ledger exactly as it was before the call.
C13_AllOrNothing ==
    [][call'.raised # "" =>
          UNCHANGED <<advances, unpaid, payments, interest_paid, balance>>]_vars

\* C14: with non-negative amounts and rates and valid dates, no pay_interest
\* call takes the partial branch (amount below the accrued interest) on an
\* advance whose interest_by_day() is 0, so the division never fails.
C14_DivisionHazardUnreachable ==
    \A k \in 1..Len(call.interest.calls) :
        LET c == call.interest.calls[k]
        IN  /\ c.raised # "ZeroDivisionError"
            /\ (\/ c.branch = "partial"
                \/ Lt(c.amount, Advance_interest_payable_balance(c.before, call.date)))
                   => interest_by_day(c.before) # Zero

\* one sweep called pay_interest with cash on an open advance whose
\* interest_by_day() is 0 and took the partial branch on another advance
C14_Witness ==
    /\ call.op = "add_payment"
    /\ \E k \in 1..Len(call.interest.calls) :
          /\ interest_by_day(call.interest.calls[k].before) = Zero
          /\ call.interest.calls[k].amount # Zero
          /\ call.interest.calls[k].branch = "full"
    /\ \E k \in 1..Len(call.interest.calls) :
          /\ call.interest.calls[k].branch = "partial"
          /\ call.interest.calls[k].raised = ""

\* the last call was an add_payment that reduced the remaining_amount of
\* some advance
C15_Case ==
    /\ call.op = "add_payment"
    /\ call.raised = ""
    /\ \E i \in Indices :
          Lt(advances[i].remaining_amount, call.pre.advances[i].remaining_amount)

\* C15: if an add_payment call reduces the remaining_amount of any advance,
\* then when its capital sweep starts no open advance has unpaid interest
\* accrued through the payment date.
C15_InterestSettledBeforeCapital ==
    C15_Case =>
        \A i \in Open(call.mid.advances) :
            AccruedThrough(call.mid.advances[i], fromisoformat(call.date)) = Zero

\* C15, amended: if an add_payment call reduces the remaining_amount of any
\* advance, then when its capital sweep starts every open advance either has
\* no unpaid interest accrued through the payment date or the cash buffer is
\* below one day of that advance's interest.
C15_WholeDaysSettledBeforeCapital ==
    C15_Case =>
        \A i \in Open(call.mid.advances) :
            \/ AccruedThrough(call.mid.advances[i], fromisoformat(call.date)) = Zero
            \/ Lt(call.mid.balance, interest_by_day(call.mid.advances[i]))

\* a payment below the accrued interest paid whole days of it and the
\* fraction left over reduced the capital of the advance
C15_Witness ==
    /\ C15_Case
    /\ \E i \in Open(call.mid.advances) :
          /\ AccruedThrough(call.mid.advances[i], fromisoformat(call.date)) # Zero
          /\ call.mid.balance # Zero
          /\ Lt(advances[i].remaining_amount, call.mid.advances[i].remaining_amount)

\* C16: in every reachable state, starting cash buffer + sum of the recorded
\* payment amounts = interest_paid + sum over the advances of (initial_amount
\* - remaining_amount) + cash buffer.
C16_GlobalConservation ==
    Add(start_balance, Sum([k \in 1..Len(payments) |-> payments[k].amount]))
        = Add(Add(interest_paid,
                  Sum([i \in Indices |-> Sub(advances[i].initial_amount,
                                             advances[i].remaining_amount)])),
              balance)

\* C17: after every completed add_advance or add_payment, a cash buffer
\* above 0 means that every advance is closed.
C17_NoCashHeldBack ==
    (call.op \in {"add_advance", "add_payment"} /\ call.raised = "") =>
        (balance # Zero => \A i \in Indices : is_close(advances[i]))

\* C18: in every reachable state the working set is a duplicate-free
\* subsequence of advances in creation order and holds every advance with
\* remaining_amount > 0, and advances only grows by appending: the advances
\* the last call started from are still there, each in its place.
C18_WorkingSetIntegrity ==
    /\ \A k \in 1..Len(unpaid) : unpaid[k] \in Indices
    /\ \A k \in 1..Len(unpaid) : \A l \in 1..Len(unpaid) :
          k < l => unpaid[k] < unpaid[l]
    /\ \A i \in Open(advances) : \E k \in 1..Len(unpaid) : unpaid[k] = i
    /\ Len(call.pre.advances) <= Len(advances)
    /\ \A i \in 1..Len(call.pre.advances) :
          /\ advances[i].creation_date = call.pre.advances[i].creation_date
          /\ advances[i].initial_amount = call.pre.advances[i].initial_amount
          /\ advances[i].daily_interest_rate = call.pre.advances[i].daily_interest_rate

\* a payment closed an advance, which left the working set, while a later
\* advance stayed open in it
C18_Witness ==
    /\ call.op = "add_payment"
    /\ Len(unpaid) < Len(call.pre.unpaid)
    /\ \E i \in Indices : \E j \in Open(advances) :
          /\ i < j
          /\ ~is_close(call.pre.advances[i])
          /\ is_close(advances[i])
          /\ \A k \in 1..Len(unpaid) : unpaid[k] # i
          /\ \E k \in 1..Len(unpaid) : unpaid[k] = j

\* the call c of pay_interest had amount >= 0 and a payment date that is not
\* before the advance's last_interest_payment_date
C19_Case(c) ==
    /\ IsIsoDate(call.date)
    /\ Le(Zero, c.amount)
    /\ c.before.last_interest_payment_date <= fromisoformat(call.date)

\* C19: a pay_interest(amount, payment_date) call with amount >= 0 and
\* payment_date >= last_interest_payment_date returns interest >= 0 and <=
\* the interest accrued through payment_date and a rest >= 0 (below one
\* day's interest in the partial branch), and leaves
\* last_interest_payment_date <= payment_date.
C19_NoOverCollection ==
    \A k \in 1..Len(call.interest.calls) :
        LET c == call.interest.calls[k]
            d == fromisoformat(call.date)
        IN  C19_Case(c) =>
                /\ c.raised = ""
                /\ Le(Zero, c.interest_paid)
                /\ Le(c.interest_paid, AccruedThrough(c.before, d))
                /\ Le(Zero, c.rest)
                /\ Lt(c.amount, AccruedThrough(c.before, d))
                       => Lt(c.rest, interest_by_day(c.before))
                /\ c.after.last_interest_payment_date <= d

\* a direct pay_interest call below the accrued interest collected some
\* whole days and returned a fraction of a day's interest
C19_Witness ==
    /\ call.op = "pay_interest"
    /\ LET c == call.interest.calls[1]
       IN  /\ C19_Case(c)
           /\ c.branch = "partial"
           /\ Lt(Zero, c.interest_paid)
           /\ Lt(Zero, c.rest)
           /\ c.after.last_interest_payment_date < fromisoformat(call.date)

\* C20: advances_balance() and interest_payable_balance(to_date) leave the
\* cash buffer, interest_paid, payments, advances and every advance's fields
\* unchanged, and the working set as well, so that every later operation or
\* query starts from the state it would have started from without them.
C20_QueriesAreReads ==
    [][call'.op \in {"advances_balance", "interest_payable_balance"} =>
          UNCHANGED <<advances, unpaid, payments, interest_paid, balance,
                      daily_interest_rate, start_balance>>]_vars

\* interest_payable_balance returned a positive amount for a ledger with an
\* open advance after a payment was allocated
C20_Witness ==
    /\ call.op = "interest_payable_balance"
    /\ call.raised = ""
    /\ call.result # Zero
    /\ payments # <<>>
    /\ Open(advances) # {}

=============================================================================
